---- MODULE Spec2Model ----
(***************************************************************************)
(* State-machine model of main.py: a FastAPI application keeping user      *)
(* records in the module-level dict users_db, with one handler per route.  *)
(*                                                                         *)
(* Strings are sequences of one-character strings, so that len(), lower()  *)
(* and the substring test `in` are computed rather than assumed.           *)
(* An Optional[str] field of UserUpdate that is None (omitted or null in   *)
(* the JSON body) is a key outside the DOMAIN of the parsed body.          *)
(***************************************************************************)
EXTENDS Integers, Sequences, FiniteSets, TLC

VARIABLES
    users_db,   \* the dict users_db: id -> stored record (user.dict())
    request,    \* the request whose handling completed last
    response,   \* the response sent for it
    inflight,   \* requests accepted by the event loop whose handler has not run
    log         \* completed (request, response) pairs, in completion order

vars == <<users_db, request, response, inflight, log>>

\* ---------------------------------------------------------------- bounds
\* Ids used by requests are 0..MaxId (0 is the non-positive id).
MaxId == 2
\* Requests of one concurrent burst (in flight or completed) in SpecConc.
MaxInflight == 3

\* ------------------------------------------------- Field(...) constraints
IdGt == 0
NameMinLen == 1
NameMaxLen == 100
PhoneMinLen == 10
PhoneMaxLen == 15
AddressMinLen == 1
AddressMaxLen == 200
QueryMinLen == 1

\* ---------------------------------------------------------------- strings
\* c repeated n times (Python: c * n).
Rep(c, n) == [i \in 1..n |-> c]

\* Characters with the Unicode property Cased among those used here:
\* Latin a/A, b/B, and Greek capital sigma, small sigma, small final sigma.
\* Digits and "x", "y", "+" stand for uncased characters.
IsCased(c) == c \in {"a", "A", "b", "B", "SIGMA", "sigma", "fsigma"}

\* str.lower() of one character outside the capital-sigma rule.
LowerChar(c) ==
    CASE c = "A" -> "a"
      [] c = "B" -> "b"
      [] OTHER -> c

\* str.lower(): the simple lowercase mapping of each character, except that
\* U+03A3 (capital sigma) maps to the final form U+03C2 when it is preceded
\* by a cased character and not followed by one, and to U+03C3 otherwise
\* (CPython's Final_Sigma handling; no case-ignorable characters occur here).
Lower(s) ==
    [i \in 1..Len(s) |->
        IF s[i] = "SIGMA"
        THEN IF /\ i > 1
                /\ IsCased(s[i-1])
                /\ (i = Len(s) \/ ~IsCased(s[i+1]))
             THEN "fsigma"
             ELSE "sigma"
        ELSE LowerChar(s[i])]

\* Python's `q in s` on strings.
Contains(q, s) ==
    \E i \in 0..(Len(s) - Len(q)) : \A j \in 1..Len(q) : s[i + j] = q[j]

\* ------------------------------------------------------------- validation
\* class User: the pydantic constraints of the create body.
ValidUser(user) ==
    /\ user.id > IdGt
    /\ Len(user.name) >= NameMinLen /\ Len(user.name) <= NameMaxLen
    /\ Len(user.phone_no) >= PhoneMinLen /\ Len(user.phone_no) <= PhoneMaxLen
    /\ Len(user.address) >= AddressMinLen /\ Len(user.address) <= AddressMaxLen

\* Faulty variant of ValidUserUpdate: the optional fields declared without
\* their Field(...) constraints.
ValidUserUpdate_Unconstrained(user_update) == TRUE

\* class UserUpdate: each field is optional; one that is given obeys the
\* same length constraints.
ValidUserUpdate(user_update) ==
    /\ "name" \in DOMAIN user_update =>
          Len(user_update.name) >= NameMinLen /\ Len(user_update.name) <= NameMaxLen
    /\ "phone_no" \in DOMAIN user_update =>
          Len(user_update.phone_no) >= PhoneMinLen /\ Len(user_update.phone_no) <= PhoneMaxLen
    /\ "address" \in DOMAIN user_update =>
          Len(user_update.address) >= AddressMinLen /\ Len(user_update.address) <= AddressMaxLen

\* name: str = Query(..., min_length=1)
ValidQuery(name) == Len(name) >= QueryMinLen

\* Faulty variant of ValidPathId: the path parameter declared with gt=0.
ValidPathId_Positive(id) == id > 0

\* id: int as a path parameter of get, update and delete: every integer
\* passes (no gt=0 is declared on it).
ValidPathId(id) == id \in Int

\* ------------------------------------------------------------- responses
Message(code, text) == [code |-> code, body |-> [message |-> text]]
HTTPException(status_code, detail) == [code |-> status_code, body |-> [detail |-> detail]]
\* FastAPI's answer to a request that fails validation; loc names the part
\* of the request that failed ("body", "query").
RequestValidationError(loc) == [code |-> 422, body |-> [detail |-> <<loc, "validation error">>]]

\* Faulty variant of UserDict: the address taken from the name.
UserDict_AddressFromName(user) ==
    [id |-> user.id, name |-> user.name,
     phone_no |-> user.phone_no, address |-> user.name]

\* user.dict(): the four fields of the validated model.
UserDict(user) ==
    [id |-> user.id, name |-> user.name,
     phone_no |-> user.phone_no, address |-> user.address]

\* response_model=User: the stored dict serialized through the User model.
ResponseUser(rec) ==
    [id |-> rec.id, name |-> rec.name,
     phone_no |-> rec.phone_no, address |-> rec.address]

\* Faulty variant of DictDel: users_db.clear() in place of del users_db[k].
DictDel_Clear(db, k) == <<>>

\* users_db[k] = v   and   del users_db[k]
DictSet(db, k, v) == [x \in (DOMAIN db) \cup {k} |-> IF x = k THEN v ELSE db[x]]
DictDel(db, k) == [x \in (DOMAIN db) \ {k} |-> db[x]]

\* --------------------------------------------------------------- handlers
\* Each handler maps the store and its validated arguments to the new store
\* and the response.
\* Faulty variants of create_user: without the membership test; and storing
\* under the next free number instead of user.id.
create_user_Overwrite(db, user) ==
    [db |-> DictSet(db, user.id, UserDict(user)),
     resp |-> Message(201, "User created successfully")]

create_user_KeyByCount(db, user) ==
    IF user.id \in DOMAIN db
    THEN [db |-> db, resp |-> HTTPException(400, "User with this ID already exists")]
    ELSE [db |-> DictSet(db, Cardinality(DOMAIN db) + 1, UserDict(user)),
          resp |-> Message(201, "User created successfully")]

create_user(db, user) ==
    IF user.id \in DOMAIN db
    THEN [db |-> db, resp |-> HTTPException(400, "User with this ID already exists")]
    ELSE [db |-> DictSet(db, user.id, UserDict(user)),
          resp |-> Message(201, "User created successfully")]

search_users_by_name(db, name) ==
    [db |-> db,
     resp |-> [code |-> 200,
               body |-> [users |-> {ResponseUser(db[k]) :
                            k \in {x \in DOMAIN db : Contains(Lower(name), Lower(db[x].name))}}]]]

get_user_by_id(db, id) ==
    IF id \notin DOMAIN db
    THEN [db |-> db, resp |-> HTTPException(404, "User not found")]
    ELSE [db |-> db, resp |-> [code |-> 200, body |-> ResponseUser(db[id])]]

\* Faulty variants of update_user: the address branch assigning to "name";
\* and an absent id created instead of answered 404.
update_user_AddressIntoName(db, id, user_update) ==
    IF id \notin DOMAIN db
    THEN [db |-> db, resp |-> HTTPException(404, "User not found")]
    ELSE LET u0 == db[id]
             u1 == IF "name" \in DOMAIN user_update
                   THEN [u0 EXCEPT !.name = user_update.name] ELSE u0
             u2 == IF "phone_no" \in DOMAIN user_update
                   THEN [u1 EXCEPT !.phone_no = user_update.phone_no] ELSE u1
             u3 == IF "address" \in DOMAIN user_update
                   THEN [u2 EXCEPT !.name = user_update.address] ELSE u2
         IN [db |-> DictSet(db, id, u3),
             resp |-> Message(200, "User updated successfully")]

update_user_Upsert(db, id, user_update) ==
    LET u0 == IF id \in DOMAIN db THEN db[id]
              ELSE [id |-> id, name |-> <<"n">>, phone_no |-> Rep("0", PhoneMinLen),
                    address |-> <<"a">>]
        u1 == IF "name" \in DOMAIN user_update
              THEN [u0 EXCEPT !.name = user_update.name] ELSE u0
        u2 == IF "phone_no" \in DOMAIN user_update
              THEN [u1 EXCEPT !.phone_no = user_update.phone_no] ELSE u1
        u3 == IF "address" \in DOMAIN user_update
              THEN [u2 EXCEPT !.address = user_update.address] ELSE u2
    IN [db |-> DictSet(db, id, u3),
        resp |-> Message(200, "User updated successfully")]

update_user(db, id, user_update) ==
    IF id \notin DOMAIN db
    THEN [db |-> db, resp |-> HTTPException(404, "User not found")]
    ELSE LET u0 == db[id]
             u1 == IF "name" \in DOMAIN user_update
                   THEN [u0 EXCEPT !.name = user_update.name] ELSE u0
             u2 == IF "phone_no" \in DOMAIN user_update
                   THEN [u1 EXCEPT !.phone_no = user_update.phone_no] ELSE u1
             u3 == IF "address" \in DOMAIN user_update
                   THEN [u2 EXCEPT !.address = user_update.address] ELSE u2
         IN [db |-> DictSet(db, id, u3),
             resp |-> Message(200, "User updated successfully")]

\* Faulty variant of delete_user: users_db.pop(id, None) without the
\* membership test.
delete_user_NoCheck(db, id) ==
    [db |-> DictDel(db, id),
     resp |-> Message(200, "User deleted successfully")]

delete_user(db, id) ==
    IF id \notin DOMAIN db
    THEN [db |-> db, resp |-> HTTPException(404, "User not found")]
    ELSE [db |-> DictDel(db, id),
          resp |-> Message(200, "User deleted successfully")]

\* ----------------------------------------------------------------- inputs
IdInputs == 0..MaxId

Fields == {"name", "phone_no", "address"}

\* A profile is a choice of <<name, phone_no, address>>.
FieldIndex(f) ==
    CASE f = "name" -> 1
      [] f = "phone_no" -> 2
      [] f = "address" -> 3

\* Two valid profiles; the phone numbers sit on both length bounds.
ProfileA == << <<"a">>, Rep("1", PhoneMinLen), <<"x">> >>
ProfileB == << <<"A", "SIGMA">>, <<"+">> \o Rep("9", PhoneMaxLen - 1), <<"y", "y">> >>
\* Profiles one step below and one step above the length bounds.
ProfileShort ==
    << Rep("a", NameMinLen - 1), Rep("1", PhoneMinLen - 1), Rep("x", AddressMinLen - 1) >>
ProfileLong ==
    << Rep("a", NameMaxLen + 1), Rep("1", PhoneMaxLen + 1), Rep("x", AddressMaxLen + 1) >>

\* Profile p with the fields in S taken from q.
Mix(p, q, S) ==
    << IF "name" \in S THEN q[1] ELSE p[1],
       IF "phone_no" \in S THEN q[2] ELSE p[2],
       IF "address" \in S THEN q[3] ELSE p[3] >>

\* POST bodies <<id, profile>>: both valid profiles under every id, and for
\* id 1 the bodies that break exactly one length constraint.
CreateInputs ==
    (IdInputs \X {ProfileA, ProfileB})
    \cup {<<1, Mix(ProfileA, bad, {f})>> : bad \in {ProfileShort, ProfileLong}, f \in Fields}

\* PUT requests <<id, S, profile>>: the body gives the fields in S the
\* values of the profile and leaves the others None. Every subset of the
\* fields is sent with ProfileB's values, all three with ProfileA's, and to
\* ids 0 and 1 the bodies that break exactly one length constraint.
UpdateInputs ==
    (IdInputs \X (SUBSET Fields) \X {ProfileB})
    \cup (IdInputs \X {Fields} \X {ProfileA})
    \cup ({0, 1} \X {{f} : f \in Fields} \X {ProfileShort, ProfileLong})

QueryInputs ==
    {<<"a">>, <<"A">>, <<"SIGMA">>, <<"sigma">>, <<"fsigma">>, <<"b">>, <<>>}

\* The parsed models the handlers receive.
MkUser(id, p) == [id |-> id, name |-> p[1], phone_no |-> p[2], address |-> p[3]]
MkUserUpdate(S, p) == [f \in S |-> p[FieldIndex(f)]]

\* ---------------------------------------------------------------- actions
NoRequest == [op |-> "none"]
NoResponse == [code |-> 0]
EmptyDb == <<>>

Init ==
    /\ users_db = EmptyDb
    /\ request = NoRequest
    /\ response = NoResponse
    /\ inflight = {}
    /\ log = <<>>

\* -------------------------------------------------------------- dispatch
\* FastAPI validates a request against the signature of the route's handler
\* and calls the handler only if it passes; otherwise it answers 422. The
\* handlers are coroutines without an await, so validation and handler body
\* run to completion in one step of the event loop.
Reject(db, loc) == [db |-> db, resp |-> RequestValidationError(loc)]

\* POST /users/
RouteCreate(db, user) ==
    IF ValidUser(user) THEN create_user(db, user) ELSE Reject(db, "body")

\* GET /users/search?name=...
RouteSearch(db, name) ==
    IF ValidQuery(name) THEN search_users_by_name(db, name) ELSE Reject(db, "query")

\* GET /users/{id}
RouteGet(db, id) ==
    IF ValidPathId(id) THEN get_user_by_id(db, id) ELSE Reject(db, "path")

\* PUT /users/{id}
RouteUpdate(db, id, user_update) ==
    IF ~ValidPathId(id) THEN Reject(db, "path")
    ELSE IF ~ValidUserUpdate(user_update) THEN Reject(db, "body")
    ELSE update_user(db, id, user_update)

\* DELETE /users/{id}
RouteDelete(db, id) ==
    IF ValidPathId(id) THEN delete_user(db, id) ELSE Reject(db, "path")

\* ------------------------------------------------- actions: one at a time
\* Spec: requests arrive one after the other; each action is one request
\* from arrival to response.
CreateUser ==
    \E in \in CreateInputs :
        LET user == MkUser(in[1], in[2])
            r == RouteCreate(users_db, user)
        IN /\ users_db' = r.db
           /\ request' = [op |-> "create", user |-> user]
           /\ response' = r.resp
           /\ UNCHANGED <<inflight, log>>

SearchUsersByName ==
    \E name \in QueryInputs :
        LET r == RouteSearch(users_db, name)
        IN /\ users_db' = r.db
           /\ request' = [op |-> "search", name |-> name]
           /\ response' = r.resp
           /\ UNCHANGED <<inflight, log>>

GetUserById ==
    \E id \in IdInputs :
        LET r == RouteGet(users_db, id)
        IN /\ users_db' = r.db
           /\ request' = [op |-> "get", id |-> id]
           /\ response' = r.resp
           /\ UNCHANGED <<inflight, log>>

UpdateUser ==
    \E in \in UpdateInputs :
        LET user_update == MkUserUpdate(in[2], in[3])
            r == RouteUpdate(users_db, in[1], user_update)
        IN /\ users_db' = r.db
           /\ request' = [op |-> "update", id |-> in[1], body |-> user_update]
           /\ response' = r.resp
           /\ UNCHANGED <<inflight, log>>

DeleteUser ==
    \E id \in IdInputs :
        LET r == RouteDelete(users_db, id)
        IN /\ users_db' = r.db
           /\ request' = [op |-> "delete", id |-> id]
           /\ response' = r.resp
           /\ UNCHANGED <<inflight, log>>

Next ==
    \/ CreateUser
    \/ SearchUsersByName
    \/ GetUserById
    \/ UpdateUser
    \/ DeleteUser

Spec == Init /\ [][Next]_vars

\* ------------------------------------------- actions: concurrent requests
\* SpecConc: a burst of at most MaxInflight requests on one event loop. A
\* request arrives (its task is created) and waits in inflight; the loop
\* then runs the tasks in any order, each handler in one step. Two
\* requests with the same content are indistinguishable to the handlers;
\* at most one of them is in flight at a time.
ConcIds == 1..MaxId

Arrive(req) ==
    /\ req \notin inflight
    /\ inflight' = inflight \cup {req}
    /\ UNCHANGED <<users_db, request, response, log>>

Complete(req, r) ==
    /\ users_db' = r.db
    /\ request' = req
    /\ response' = r.resp
    /\ inflight' = inflight \ {req}
    /\ log' = Append(log, [req |-> req, resp |-> r.resp])

ArriveCreate ==
    /\ Cardinality(inflight) + Len(log) < MaxInflight
    /\ \E id \in ConcIds, p \in {ProfileA, ProfileB} :
          Arrive([op |-> "create", user |-> MkUser(id, p)])

ArriveUpdate ==
    /\ Cardinality(inflight) + Len(log) < MaxInflight
    /\ \E id \in ConcIds :
          Arrive([op |-> "update", id |-> id, body |-> MkUserUpdate({"name"}, ProfileB)])

ArriveDelete ==
    /\ Cardinality(inflight) + Len(log) < MaxInflight
    /\ \E id \in ConcIds : Arrive([op |-> "delete", id |-> id])

RunCreate ==
    \E req \in inflight :
        /\ req.op = "create"
        /\ Complete(req, RouteCreate(users_db, req.user))

RunUpdate ==
    \E req \in inflight :
        /\ req.op = "update"
        /\ Complete(req, RouteUpdate(users_db, req.id, req.body))

RunDelete ==
    \E req \in inflight :
        /\ req.op = "delete"
        /\ Complete(req, RouteDelete(users_db, req.id))

NextConc ==
    \/ ArriveCreate
    \/ ArriveUpdate
    \/ ArriveDelete
    \/ RunCreate
    \/ RunUpdate
    \/ RunDelete

SpecConc == Init /\ [][NextConc]_vars

\* ===================================================================== claims
\* What the steps of Spec are about: the request handled by a step is
\* request', the store before it users_db, the store after it users_db'.

\* The schema bounds as the specification states them.
InSchema(name, phone_no, address) ==
    /\ Len(name) >= 1 /\ Len(name) <= 100
    /\ Len(phone_no) >= 10 /\ Len(phone_no) <= 15
    /\ Len(address) >= 1 /\ Len(address) <= 200

CreatePassesSchema(user) ==
    user.id > 0 /\ InSchema(user.name, user.phone_no, user.address)

UpdatePassesSchema(body) ==
    InSchema(IF "name" \in DOMAIN body THEN body.name ELSE <<"n">>,
             IF "phone_no" \in DOMAIN body THEN body.phone_no ELSE Rep("0", 10),
             IF "address" \in DOMAIN body THEN body.address ELSE <<"a">>)

SameUser(r, u) ==
    /\ r.id = u.id
    /\ r.name = u.name
    /\ r.phone_no = u.phone_no
    /\ r.address = u.address

\* C1: a create that passes the schema and whose id is absent answers 201
\* and stores the four fields as sent; a stored record stays as it is over
\* every step that is not an update or delete of its id; a get of a stored
\* id answers 200 with the four fields as stored. Together: create then get,
\* with no update or delete of the id in between, returns the created record.
C1_CreateGetRoundTrip ==
    [][/\ (/\ request'.op = "create"
           /\ CreatePassesSchema(request'.user)
           /\ request'.user.id \notin DOMAIN users_db)
          => /\ response'.code = 201
             /\ request'.user.id \in DOMAIN users_db'
             /\ SameUser(users_db'[request'.user.id], request'.user)
       /\ \A k \in DOMAIN users_db :
             ~(request'.op \in {"update", "delete"} /\ request'.id = k)
             => k \in DOMAIN users_db' /\ users_db'[k] = users_db[k]
       /\ (request'.op = "get" /\ request'.id \in DOMAIN users_db)
          => /\ response'.code = 200
             /\ DOMAIN response'.body = {"id", "name", "phone_no", "address"}
             /\ SameUser(response'.body, users_db[request'.id])
      ]_vars

C1_Witness ==
    /\ request.op = "get"
    /\ response.code = 200
    /\ response.body.id = 2
    /\ response.body.name = ProfileB[1]
    /\ response.body.phone_no = ProfileB[2]
    /\ response.body.address = ProfileB[3]

\* C2: a create that passes the schema and whose id is already stored
\* answers 400 "User with this ID already exists" and leaves the whole
\* store as it was.
C2_DuplicateCreateRejected ==
    [][(/\ request'.op = "create"
        /\ CreatePassesSchema(request'.user)
        /\ request'.user.id \in DOMAIN users_db)
       => /\ response'.code = 400
          /\ response'.body = [detail |-> "User with this ID already exists"]
          /\ users_db' = users_db
      ]_vars

C2_Witness ==
    /\ request.op = "create"
    /\ response.code = 400
    /\ request.user.id \in DOMAIN users_db
    /\ users_db[request.user.id].name # request.user.name
    /\ users_db[request.user.id].phone_no # request.user.phone_no
    /\ users_db[request.user.id].address # request.user.address

\* C3: an update of a stored id with a body that passes the schema answers
\* 200, gives each field the body carries the body's value, keeps every
\* other field of that record (the id included), and keeps every record
\* stored under another id.
C3_PartialUpdateFrame ==
    [][(/\ request'.op = "update"
        /\ UpdatePassesSchema(request'.body)
        /\ request'.id \in DOMAIN users_db)
       => /\ response'.code = 200
          /\ response'.body = [message |-> "User updated successfully"]
          /\ DOMAIN users_db' = DOMAIN users_db
          /\ \A k \in DOMAIN users_db \ {request'.id} : users_db'[k] = users_db[k]
          /\ DOMAIN users_db'[request'.id] = {"id", "name", "phone_no", "address"}
          /\ users_db'[request'.id].id = users_db[request'.id].id
          /\ \A f \in Fields :
                users_db'[request'.id][f] =
                    IF f \in DOMAIN request'.body
                    THEN request'.body[f]
                    ELSE users_db[request'.id][f]
      ]_vars

\* An update that gave only the phone number has changed it, next to
\* another stored record.
C3_Witness ==
    /\ request.op = "update"
    /\ response.code = 200
    /\ DOMAIN request.body = {"phone_no"}
    /\ users_db[request.id].phone_no = ProfileB[2]
    /\ users_db[request.id].name = ProfileA[1]
    /\ users_db[request.id].address = ProfileA[3]
    /\ Cardinality(DOMAIN users_db) = 2

\* C4: a delete of a stored id answers 200 and removes that record and no
\* other; an id that is not stored stays absent over every step except a
\* create of it that answers 201, and until then get, update and delete of
\* it answer 404; a create of an absent id that passes the schema answers
\* 201 and stores it, whether or not the id was stored and deleted before.
C4_DeleteEffective ==
    [][/\ (request'.op = "delete" /\ request'.id \in DOMAIN users_db)
          => /\ response'.code = 200
             /\ response'.body = [message |-> "User deleted successfully"]
             /\ DOMAIN users_db' = DOMAIN users_db \ {request'.id}
             /\ \A k \in DOMAIN users_db' : users_db'[k] = users_db[k]
       /\ \A k \in IdInputs \ DOMAIN users_db :
             /\ (/\ request'.op \in {"get", "delete", "update"}
                 /\ request'.id = k
                 /\ request'.op = "update" => UpdatePassesSchema(request'.body))
                => response'.code = 404
             /\ k \in DOMAIN users_db'
                => /\ request'.op = "create"
                   /\ request'.user.id = k
                   /\ response'.code = 201
             /\ (/\ request'.op = "create"
                 /\ request'.user.id = k
                 /\ CreatePassesSchema(request'.user))
                => response'.code = 201 /\ k \in DOMAIN users_db'
      ]_vars

\* A delete has removed one record and left the other.
C4_Witness ==
    /\ request.op = "delete"
    /\ response.code = 200
    /\ request.id \notin DOMAIN users_db
    /\ Cardinality(DOMAIN users_db) = 1

\* C5: a get, a delete, or an update with a body that passes the schema,
\* addressed to an id that is not stored, answers 404 "User not found" and
\* leaves the store as it was.
C5_NotFound ==
    [][(/\ request'.op \in {"get", "delete", "update"}
        /\ request'.op = "update" => UpdatePassesSchema(request'.body)
        /\ request'.id \notin DOMAIN users_db)
       => /\ response'.code = 404
          /\ response'.body = [detail |-> "User not found"]
          /\ users_db' = users_db
      ]_vars

\* An update with all three fields was sent to an absent positive id while
\* another record is stored: nothing was created.
C5_Witness ==
    /\ request.op = "update"
    /\ response.code = 404
    /\ request.id > 0
    /\ DOMAIN request.body = Fields
    /\ request.id \notin DOMAIN users_db
    /\ users_db # EmptyDb

\* Case-insensitive comparison as the specification means it: two
\* characters are the same letter when their case foldings agree (capital
\* sigma, small sigma and final sigma are one letter).
Fold(c) ==
    CASE c = "A" -> "a"
      [] c = "B" -> "b"
      [] c = "SIGMA" -> "sigma"
      [] c = "fsigma" -> "sigma"
      [] OTHER -> c

ContainsIgnoringCase(q, s) ==
    \E i \in 0..(Len(s) - Len(q)) : \A j \in 1..Len(q) : Fold(s[i + j]) = Fold(q[j])

\* C6: a search with a non-empty query answers 200 with exactly the stored
\* records whose name contains the query ignoring case (the empty list when
\* there is none). Search leaves the store alone, so the store of the state
\* is the store searched.
C6_SearchExact ==
    (request.op = "search" /\ Len(request.name) >= 1)
    => /\ response.code = 200
       /\ response.body.users =
            {users_db[k] : k \in {x \in DOMAIN users_db :
                                    ContainsIgnoringCase(request.name, users_db[x].name)}}

\* C7: the record stored under key k has id k, so no two stored records
\* share an id and no request changes the id of a stored record.
C7_IdIsKey ==
    /\ \A k \in DOMAIN users_db : users_db[k].id = k
    /\ \A k1, k2 \in DOMAIN users_db : users_db[k1].id = users_db[k2].id => k1 = k2

\* Two records are stored and one of them has been updated.
C7_Witness ==
    /\ Cardinality(DOMAIN users_db) = 2
    /\ request.op = "update"
    /\ response.code = 200
    /\ DOMAIN request.body = Fields

\* C8 as stated: every update whose id is not positive is answered 422.
C8_Original ==
    (request.op = "update" /\ request.id <= 0) => response.code = 422

\* C8 amended: the id of an update is not validated for sign. An update
\* with a non-positive id and a body that passes the schema reaches the
\* store lookup and answers 404 "User not found", the store unchanged; it
\* is answered 422 only when its body fails the schema.
C8_NonPositiveIdNotFound ==
    [][(request'.op = "update" /\ request'.id <= 0)
       => /\ users_db' = users_db
          /\ IF UpdatePassesSchema(request'.body)
             THEN /\ response'.code = 404
                  /\ response'.body = [detail |-> "User not found"]
             ELSE response'.code = 422
      ]_vars

C8_Witness ==
    /\ request.op = "update"
    /\ request.id = 0
    /\ DOMAIN request.body = {"name"}
    /\ response.code = 404
    /\ users_db # EmptyDb

\* C9: after every step each stored record has id > 0 and field lengths
\* within the schema, and a create or update whose body breaks the schema
\* is answered 422 and leaves the store as it was.
C9_StoredRecordsInSchema ==
    [][/\ \A k \in DOMAIN users_db' :
             /\ users_db'[k].id > 0
             /\ InSchema(users_db'[k].name, users_db'[k].phone_no, users_db'[k].address)
       /\ (request'.op = "create" /\ ~CreatePassesSchema(request'.user))
          => response'.code = 422 /\ users_db' = users_db
       /\ (request'.op = "update" /\ ~UpdatePassesSchema(request'.body))
          => response'.code = 422 /\ users_db' = users_db
      ]_vars

\* An update with a phone number one character too long was sent to a
\* stored id and rejected.
C9_Witness ==
    /\ request.op = "update"
    /\ request.id \in DOMAIN users_db
    /\ DOMAIN request.body = {"phone_no"}
    /\ Len(request.body.phone_no) = 16
    /\ response.code = 422

\* ------------------------------------------------------------------ C10
\* The id a completed request addressed.
ReqId(req) == IF req.op = "create" THEN req.user.id ELSE req.id

Last(S) == CHOOSE m \in S : \A n \in S : n <= m

\* Whether id k is absent before the i-th completion, were the completed
\* requests served one after the other in completion order from the empty
\* store: no create or delete of k succeeded before, or the last that did
\* was a delete.
AbsentBefore(k, i) ==
    LET prior == {m \in 1..(i - 1) :
                    /\ ReqId(log[m].req) = k
                    /\ \/ log[m].req.op = "create" /\ log[m].resp.code = 201
                       \/ log[m].req.op = "delete" /\ log[m].resp.code = 200}
    IN prior = {} \/ log[Last(prior)].req.op = "delete"

\* The value field f of id k has after all completions in that serial
\* order: the winning create's, or that of the last later update giving f.
SerialField(k, f) ==
    LET n == Len(log) + 1
        c == Last({m \in 1..Len(log) :
                    /\ log[m].req.op = "create"
                    /\ ReqId(log[m].req) = k
                    /\ log[m].resp.code = 201})
        ups == {m \in (c + 1)..Len(log) :
                    /\ log[m].req.op = "update"
                    /\ log[m].req.id = k
                    /\ log[m].resp.code = 200
                    /\ f \in DOMAIN log[m].req.body}
    IN IF ups = {} THEN log[c].req.user[f] ELSE log[Last(ups)].req.body[f]

\* C10: under every interleaving of the in-flight requests, the responses
\* and the store are those of serving the completed requests one after the
\* other in completion order: a create answers 201 if its id is absent then
\* and 400 otherwise, an update or delete 200 if present and 404 otherwise;
\* the store holds exactly the ids present at the end of that order, each
\* with the winning create's fields as changed by later successful updates.
\* So of two creates of one absent id racing, the first to run answers 201,
\* the other 400, and the record is the winner's; and once a delete has
\* answered 200 the id is stored again only after a later create's 201.
C10_HandlersAtomic ==
    /\ \A i \in 1..Len(log) :
          LET req == log[i].req
              absent == AbsentBefore(ReqId(req), i)
          IN log[i].resp.code =
                IF req.op = "create"
                THEN (IF absent THEN 201 ELSE 400)
                ELSE (IF absent THEN 404 ELSE 200)
    /\ DOMAIN users_db = {k \in ConcIds : ~AbsentBefore(k, Len(log) + 1)}
    /\ \A k \in DOMAIN users_db :
          /\ users_db[k].id = k
          /\ \A f \in Fields : users_db[k][f] = SerialField(k, f)
    /\ \A i \in 1..Len(log), j \in 1..Len(log) :
          (/\ i < j
           /\ log[i].req.op = "create" /\ log[j].req.op = "create"
           /\ ReqId(log[i].req) = ReqId(log[j].req)
           /\ log[i].resp.code = 201
           /\ \A m \in (i + 1)..(j - 1) :
                 ~(log[m].req.op = "delete" /\ log[m].req.id = ReqId(log[i].req)
                   /\ log[m].resp.code = 200))
          => log[j].resp.code = 400
    /\ \A i \in 1..Len(log) :
          (/\ log[i].req.op = "delete"
           /\ log[i].resp.code = 200
           /\ \A m \in (i + 1)..Len(log) :
                 ~(log[m].req.op = "create" /\ ReqId(log[m].req) = log[i].req.id
                   /\ log[m].resp.code = 201))
          => log[i].req.id \notin DOMAIN users_db

\* Two creates of id 1 with different bodies raced with an update of it:
\* the ProfileB create ran first and won, the ProfileA create got 400, the
\* update ran last, and the record is the winner's with the updated name.
C10_Witness ==
    /\ Len(log) = 3
    /\ inflight = {}
    /\ log[1].req.op = "create" /\ log[1].req.user.id = 1
    /\ log[1].req.user.address = ProfileB[3]
    /\ log[1].resp.code = 201
    /\ log[2].req.op = "create" /\ log[2].req.user.id = 1
    /\ log[2].req.user.address = ProfileA[3]
    /\ log[2].resp.code = 400
    /\ log[3].req.op = "update" /\ log[3].req.id = 1
    /\ log[3].resp.code = 200
    /\ users_db[1].address = ProfileB[3]
    /\ users_db[1].name = ProfileB[1]

====
